---- MODULE Spec2Model ----
(***************************************************************************)
(* Film-Search: the loader (read_file), the ranker (top_n), the writer     *)
(* (write_file) and the interactive entry point (main) of                  *)
(* movie_service.py.                                                       *)
(*                                                                         *)
(* Text is a sequence of one-character strings, a title a sequence of code *)
(* points (so that titles can be ordered), a line of the CSV file the      *)
(* fields that line.split(';') yields.  A float is an integer count of     *)
(* units of 2^-FracBits with at most Precision significant bits; every     *)
(* float operation rounds to nearest, ties to even, as IEEE-754 does       *)
(* (Python's float has 53 significant bits; the model keeps the rounding   *)
(* rule and shortens the significand).                                     *)
(***************************************************************************)
EXTENDS Integers, Sequences, FiniteSets

VARIABLES file, year, genre, n, pc, movies_data, top_movies, out_file, console

vars == <<file, year, genre, n, pc, movies_data, top_movies, out_file, console>>

(***************************************************************************)
(* Bounds of the model.                                                    *)
(***************************************************************************)
\* data lines of a file handed to read_file
MaxLines == 3
\* records of a list handed to top_n
MaxRecords == 2
\* largest n handed to top_n
MaxN == 2
\* data lines of a file handed to main
MaxMainLines == 2
\* significant bits of a float
Precision == 3
\* a float is a multiple of 2^-FracBits
FracBits == 3

Unit == 2 ^ FracBits

(***************************************************************************)
(* The schema: fields per data line, and the (0-based) fields read.        *)
(***************************************************************************)
NumFields == 12
ActorsField == 5
YearField == 6
RatingField == 8

(***************************************************************************)
(* Python values.                                                          *)
(***************************************************************************)
\* str.split(sep): the pieces between the non-overlapping occurrences of sep,
\* found left to right; a text without sep (the empty text too) is one piece.
RECURSIVE split(_, _)
split(s, sep) ==
    LET k == Len(sep)
        hits == {i \in 1..(Len(s) - k + 1) : SubSeq(s, i, i + k - 1) = sep}
    IN  IF hits = {}
        THEN <<s>>
        ELSE LET i == CHOOSE h \in hits : \A g \in hits : h <= g
             IN  <<SubSeq(s, 1, i - 1)>> \o split(SubSeq(s, i + k, Len(s)), sep)

\* str < str: by code point, a proper prefix first.
RECURSIVE StrLess(_, _)
StrLess(a, b) ==
    IF b = <<>> THEN FALSE
    ELSE IF a = <<>> THEN TRUE
    ELSE IF a[1] # b[1] THEN a[1] < b[1]
    ELSE StrLess(Tail(a), Tail(b))

Range(s) == {s[i] : i \in DOMAIN s}

Min2(a, b) == IF a <= b THEN a ELSE b

Abs(x) == IF x < 0 THEN -x ELSE x

(***************************************************************************)
(* Floats.                                                                 *)
(***************************************************************************)
\* The distance between neighbouring floats at magnitude q (in units).
RECURSIVE Spacing(_)
Spacing(q) == IF q < 2 ^ Precision THEN 1 ELSE 2 * Spacing(q \div 2)

\* The float nearest to a / b (a >= 0, b > 0), ties to the even significand.
RoundPos(a, b) ==
    LET s == Spacing(a \div b)
        d == b * s
        f == a \div d
        r == a - f * d
    IN  (IF 2 * r > d \/ (2 * r = d /\ f % 2 = 1) THEN f + 1 ELSE f) * s

Round(a, b) == IF a < 0 THEN -RoundPos(-a, b) ELSE RoundPos(a, b)

\* x + y, x / k (k a positive integer) and max(x, y) on floats.
FAdd(x, y) == Round(x + y, 1)

FDiv(x, k) == Round(x, k)

\* max written as min.
FMin(x, y) == IF y < x THEN y ELSE x

FMax(x, y) == IF y > x THEN y ELSE x

\* sum(values): from the integer 0, left to right, each addition rounded.
RECURSIVE FSumFrom(_, _)
FSumFrom(acc, values) ==
    IF values = <<>> THEN acc ELSE FSumFrom(FAdd(acc, Head(values)), Tail(values))

FSum(values) == FSumFrom(0, values)

(***************************************************************************)
(* A line of the file, split on ';' and stripped: nf fields, of which the  *)
(* model keeps those the program reads.  Field k of the source (counted    *)
(* from 0) exists iff k < nf.  A numeric field is a cell: the number its   *)
(* text denotes, or no number at all.                                      *)
(***************************************************************************)
Num(v) == [num |-> TRUE, val |-> v]

NotNum == [num |-> FALSE, val |-> 0]

Line(nf, title, genres, actors, yr, rating) ==
    [nf |-> nf, title |-> title, genre |-> genres, actors |-> actors,
     year |-> yr, rating |-> rating]

Result(kind, val, exc, out) == [kind |-> kind, val |-> val, exc |-> exc, out |-> out]

(***************************************************************************)
(* read_file                                                               *)
(***************************************************************************)
\* ReadLines with the year test off by one: int(film_year) <= year.
RECURSIVE ReadLinesDropsFloorYear(_, _, _, _)
ReadLinesDropsFloorYear(lines, i, floor, results) ==
    IF i > Len(lines) THEN Result("list", results, "", <<>>)
    ELSE LET line == lines[i]
         IN  IF ~(YearField < line.nf)
                 THEN Result("raise", <<>>, "IndexError", <<>>)
             ELSE IF line.nf # NumFields \/ ~line.year.num
                 THEN Result("None", <<>>, "", <<"The data in the input file is not valid.">>)
             ELSE IF line.year.val <= floor
                 THEN ReadLinesDropsFloorYear(lines, i + 1, floor, results)
             ELSE ReadLinesDropsFloorYear(lines, i + 1, floor, Append(results, line))

\* The loop over the data lines: lines[i..], with the records kept so far.
RECURSIVE ReadLines(_, _, _, _)
ReadLines(lines, i, floor, results) ==
    IF i > Len(lines) THEN Result("list", results, "", <<>>)
    ELSE LET line == lines[i]
         IN  IF ~(YearField < line.nf)
                 THEN Result("raise", <<>>, "IndexError", <<>>)
             ELSE IF line.nf # NumFields
                 THEN Result("None", <<>>, "", <<"The data in the input file is not valid.">>)
             ELSE IF ~line.year.num
                 THEN Result("None", <<>>, "", <<"The data in the input file is not valid.">>)
             ELSE IF line.year.val < floor
                 THEN ReadLines(lines, i + 1, floor, results)
             ELSE ReadLines(lines, i + 1, floor, Append(results, line))

read_file(f, yr) ==
    IF yr < 0
        THEN Result("None", <<>>, "", <<"The given year is not valid.">>)
    ELSE IF ~f.exists
        THEN Result("None", <<>>, "", <<"File not found.">>)
    ELSE \* file.readline() drops the header; an empty file has none to drop
         ReadLines(f.lines, 2, yr, <<>>)

(***************************************************************************)
(* top_n                                                                   *)
(***************************************************************************)
RankResult(kind, val, exc, out, src, peaks) ==
    [kind |-> kind, val |-> val, exc |-> exc, out |-> out, src |-> src,
     actors_max |-> peaks]

\* actors_max.get(actor, 0)
Get(table, actor) == IF actor \in DOMAIN table THEN table[actor] ELSE 0

\* actors_max[actor] = max(actors_max.get(actor, 0), rating), for each actor in turn
RECURSIVE UpdateActors(_, _, _)
UpdateActors(table, actors, rating) ==
    IF actors = <<>> THEN table
    ELSE LET a == Head(actors)
             t == [x \in DOMAIN table \cup {a} |->
                      IF x = a THEN FMax(Get(table, a), rating) ELSE table[x]]
         IN  UpdateActors(t, Tail(actors), rating)

\* The first loop of top_n over data[i..]: the table of peaks, or the exception
\* that ends the loop.
RECURSIVE BuildActorsMax(_, _, _)
BuildActorsMax(data, i, table) ==
    IF i > Len(data) THEN [err |-> "", table |-> table]
    ELSE LET movie == data[i]
         IN  IF ~(ActorsField < movie.nf) \/ ~(RatingField < movie.nf)
                 THEN [err |-> "IndexError", table |-> table]
             ELSE IF ~movie.rating.num
                 THEN [err |-> "ValueError", table |-> table]
             ELSE BuildActorsMax(data, i + 1,
                      UpdateActors(table, split(movie.actors, <<",", " ">>),
                                   movie.rating.val))

\* The genre test by containment: any(tag in movie[2] for tag in genre.split(",")).
GenreMatchesSubstring(g, movie) ==
    \/ g = <<>>
    \/ \E t \in Range(split(g, <<",">>)) :
          \E i \in 1..(Len(movie.genre) + 1) :
              /\ i + Len(t) - 1 <= Len(movie.genre)
              /\ SubSeq(movie.genre, i, i + Len(t) - 1) = t

\* not genre or set(genre.split(",")).intersection(set(movie[2].split(",")))
GenreMatches(g, movie) ==
    \/ g = <<>>
    \/ Range(split(g, <<",">>)) \cap Range(split(movie.genre, <<",">>)) # {}

\* The entry of movies_rating for data[i]; src remembers where it came from.
Rated(data, i, table) ==
    LET movie == data[i]
        actors == split(movie.actors, <<",", " ">>)
        actors_values == [k \in DOMAIN actors |-> table[actors[k]]]
    IN  [title |-> movie.title, rating |-> movie.rating.val,
         actors |-> FDiv(FSum(actors_values), Len(actors_values)), src |-> i]

\* len(actors_values) = 0 for some genre-matching record: ZeroDivisionError
DividesByZero(data, g) ==
    \E i \in DOMAIN data :
        GenreMatches(g, data[i]) /\ Len(split(data[i].actors, <<",", " ">>)) = 0

RECURSIVE MoviesRating(_, _, _, _)
MoviesRating(data, i, g, table) ==
    IF i > Len(data) THEN <<>>
    ELSE IF GenreMatches(g, data[i])
        THEN <<Rated(data, i, table)>> \o MoviesRating(data, i + 1, g, table)
    ELSE MoviesRating(data, i + 1, g, table)

\* The key without its minus sign: ascending by score.
compare_rating_ascending(m) == <<FDiv(FAdd(m.rating, m.actors), 2), m.title>>

compare_rating(m) == <<FDiv(-FAdd(m.rating, m.actors), 2), m.title>>

\* key a < key b, as Python compares tuples
KeyLess(a, b) == a[1] < b[1] \/ (a[1] = b[1] /\ StrLess(a[2], b[2]))

\* list.sort(key=compare_rating): stable.
RECURSIVE InsertByKey(_, _)
InsertByKey(sorted, m) ==
    IF sorted = <<>> THEN <<m>>
    ELSE IF KeyLess(compare_rating(m), compare_rating(Head(sorted)))
        THEN <<m>> \o sorted
    ELSE <<Head(sorted)>> \o InsertByKey(Tail(sorted), m)

RECURSIVE SortByKey(_, _)
SortByKey(sorted, rest) ==
    IF rest = <<>> THEN sorted
    ELSE SortByKey(InsertByKey(sorted, Head(rest)), Tail(rest))

\* The slice forgotten: every entry is returned.
SliceAll(ms, k) == ms

\* movies_rating[:n if n else len(movies_rating)]
Slice(ms, k) == SubSeq(ms, 1, Min2(IF k # 0 THEN k ELSE Len(ms), Len(ms)))

Entry(m) == <<m.title, FDiv(FAdd(m.rating, m.actors), 2)>>

top_n(data, g, k) ==
    IF ~(k >= 0)
        THEN RankResult("None", <<>>, "", <<"The input is not valid.">>, <<>>, <<>>)
    ELSE LET built == BuildActorsMax(data, 1, <<>>)
         IN  IF built.err = "ValueError"
                 THEN RankResult("raise", <<>>, "ValueError", <<>>, <<>>, built.table)
             ELSE IF built.err = "IndexError" \/ DividesByZero(data, g)
                 THEN RankResult("None", <<>>, "", <<"The input data is not valid.">>,
                                 <<>>, built.table)
             ELSE LET top == Slice(SortByKey(<<>>, MoviesRating(data, 1, g, built.table)), k)
                  IN  RankResult("list", [j \in DOMAIN top |-> Entry(top[j])], "", <<>>,
                                 [j \in DOMAIN top |-> top[j].src], built.table)

(***************************************************************************)
(* write_file                                                              *)
(***************************************************************************)
\* f"{rating:.1f}": the count of tenths nearest to the float, ties to even.
Format1(x) ==
    LET a == Abs(10 * x)
        f == a \div Unit
        r == a - f * Unit
        t == IF 2 * r > Unit \/ (2 * r = Unit /\ f % 2 = 1) THEN f + 1 ELSE f
    IN  IF x < 0 THEN -t ELSE t

\* The lines written: f"{title}, {rating:.1f}" for each entry, in order.
write_file(top) == [j \in DOMAIN top |-> <<top[j][1], Format1(top[j][2])>>]

(***************************************************************************)
(* Inputs.                                                                 *)
(***************************************************************************)
SeqsUpTo(S, k) == UNION {[1..m -> S] : m \in 0..k}

\* "AB" and "B" (the record without actors below is titled "A")
Titles == {<<65, 66>>, <<66>>}

\* "SF" and "S,D"
Genres == {<<"S", "F">>, <<"S", ",", "D">>}

\* "", "S", "F", "D,SF"
GenreFilters == {<<>>, <<"S">>, <<"F">>, <<"D", ",", "S", "F">>}

ActorsA == <<"A">>
ActorsAB == <<"A", ",", " ", "B">>
ActorsABCDE == <<"A", ",", " ", "B", ",", " ", "C", ",", " ", "D", ",", " ", "E">>

\* actors and critic rating of the well-formed records
ActorRatings == {<<ActorsA, 3>>, <<ActorsA, 7>>, <<ActorsAB, 3>>}

Record(title, genres, actors, yr, rating) ==
    Line(NumFields, title, genres, actors, yr, rating)

\* a line with nf # NumFields fields; a blank line has one (empty) field
Malformed(nf) == Line(nf, <<>>, <<>>, <<>>, NotNum, NotNum)

Header == Record(<<84>>, <<"G">>, <<"A">>, NotNum, NotNum)

\* records handed to top_n: well-formed ones (some of five actors, some rated
\* below 0), one without actors, one whose rating is no number, one with too
\* few fields
RankRecords ==
    {Record(t, g, ar[1], Num(1), Num(ar[2] * Unit)) :
        t \in Titles, g \in Genres, ar \in ActorRatings}
    \cup {Record(<<66>>, g, ActorsABCDE, Num(1), Num(7 * Unit)) : g \in Genres}
    \cup {Record(t, <<"S", "F">>, ActorsA, Num(1), Num(-1 * Unit)) : t \in Titles}
    \cup {Record(<<65>>, <<"S", "F">>, <<>>, Num(1), Num(3 * Unit)),
          Record(<<65>>, <<"S", "F">>, ActorsA, Num(1), NotNum),
          Malformed(8)}

\* data lines handed to read_file
LoadLines ==
    {Record(t, <<"S", "F">>, ActorsA, y, Num(3 * Unit)) :
        t \in {<<65>>, <<66>>}, y \in {Num(1), Num(2), Num(3), NotNum}}
    \cup {Malformed(1), Malformed(11), Malformed(13)}

\* data lines handed to main
MainLines ==
    {Record(<<65>>, <<"S", "F">>, ActorsA, Num(3), Num(7 * Unit)),
     Record(<<66>>, <<"S", ",", "D">>, ActorsAB, Num(3), Num(3 * Unit)),
     Record(<<65>>, <<"S", ",", "D">>, ActorsA, Num(1), Num(3 * Unit)),
     Record(<<66>>, <<"S", "F">>, ActorsA, Num(3), NotNum),
     Record(<<66>>, <<"S", "F">>, ActorsA, NotNum, Num(3 * Unit)),
     Malformed(1), Malformed(11)}

Files(lines, k) ==
    {[exists |-> FALSE, lines |-> <<>>], [exists |-> TRUE, lines |-> <<>>]}
    \cup {[exists |-> TRUE, lines |-> <<Header>> \o d] : d \in SeqsUpTo(lines, k)}

YearFloors == {-1, 0, 2}

Unset == Result("unset", <<>>, "", <<>>)

UnsetRank == RankResult("unset", <<>>, "", <<>>, <<>>, <<>>)

NoFile == [exists |-> FALSE, lines |-> <<>>]

Truthy(r) == r.kind = "list" /\ r.val # <<>>

\* top_movies.txt: not opened, written, or open() failed with IOError
Output(state, lines) == [state |-> state, lines |-> lines]

NoOutput == Output("absent", <<>>)

(***************************************************************************)
(* The interactive entry point.                                            *)
(***************************************************************************)
Init ==
    /\ file \in Files(MainLines, MaxMainLines)
    /\ year \in YearFloors
    /\ genre \in GenreFilters
    /\ n \in -1..MaxN
    /\ pc = "start"
    /\ movies_data = Unset
    /\ top_movies = UnsetRank
    /\ out_file = NoOutput
    /\ console = <<"Welcome to the Top Rated Movies service!">>

MainReadFile ==
    /\ pc = "start"
    /\ LET r == read_file(file, year)
       IN  /\ movies_data' = r
           /\ console' = console \o r.out
           /\ pc' = IF r.kind = "raise" THEN "crashed" ELSE "read_done"
    /\ UNCHANGED <<file, year, genre, n, top_movies, out_file>>

MainTopN ==
    /\ pc = "read_done"
    /\ Truthy(movies_data)
    /\ LET t == top_n(movies_data.val, genre, n)
       IN  /\ top_movies' = t
           /\ console' = console \o t.out
           /\ pc' = IF t.kind = "raise" THEN "crashed" ELSE "rank_done"
    /\ UNCHANGED <<file, year, genre, n, movies_data, out_file>>

MainNoData ==
    /\ pc = "read_done"
    /\ ~Truthy(movies_data)
    /\ console' = Append(console, "No valid data found for the given input.")
    /\ pc' = "done"
    /\ UNCHANGED <<file, year, genre, n, movies_data, top_movies, out_file>>

MainWriteFile ==
    /\ pc = "rank_done"
    /\ Truthy(top_movies)
    /\ \E opened \in BOOLEAN :
          /\ out_file' = IF opened THEN Output("written", write_file(top_movies.val))
                                   ELSE Output("io_error", <<>>)
          /\ console' = console
                \o (IF opened THEN <<>> ELSE <<"Could not write to file top_movies.txt">>)
                \o <<"The top-rated movies have been written to 'top_movies.txt'.">>
    /\ pc' = "done"
    /\ UNCHANGED <<file, year, genre, n, movies_data, top_movies>>

MainNoMovies ==
    /\ pc = "rank_done"
    /\ ~Truthy(top_movies)
    /\ console' = Append(console, "No movies found for the given criteria.")
    /\ pc' = "done"
    /\ UNCHANGED <<file, year, genre, n, movies_data, top_movies, out_file>>

Next == MainReadFile \/ MainTopN \/ MainNoData \/ MainWriteFile \/ MainNoMovies

Spec == Init /\ [][Next]_vars

(***************************************************************************)
(* read_file called on its own.                                            *)
(***************************************************************************)
InitLoad ==
    /\ file \in Files(LoadLines, MaxLines)
    /\ year \in YearFloors
    /\ genre = <<>>
    /\ n = 0
    /\ pc = "call_read_file"
    /\ movies_data = Unset
    /\ top_movies = UnsetRank
    /\ out_file = NoOutput
    /\ console = <<>>

ReadFile ==
    /\ pc = "call_read_file"
    /\ LET r == read_file(file, year)
       IN  /\ movies_data' = r
           /\ console' = console \o r.out
    /\ pc' = "returned"
    /\ UNCHANGED <<file, year, genre, n, top_movies, out_file>>

NextLoad == ReadFile

SpecLoad == InitLoad /\ [][NextLoad]_vars

(***************************************************************************)
(* top_n called on its own.                                                *)
(***************************************************************************)
InitRank ==
    /\ file = NoFile
    /\ year = 0
    /\ movies_data \in {Result("list", d, "", <<>>) : d \in SeqsUpTo(RankRecords, MaxRecords)}
    /\ genre \in GenreFilters
    /\ n \in 0..MaxN
    /\ pc = "call_top_n"
    /\ top_movies = UnsetRank
    /\ out_file = NoOutput
    /\ console = <<>>

TopN ==
    /\ pc = "call_top_n"
    /\ LET t == top_n(movies_data.val, genre, n)
       IN  /\ top_movies' = t
           /\ console' = console \o t.out
    /\ pc' = "returned"
    /\ UNCHANGED <<file, year, genre, n, movies_data, out_file>>

NextRank == TopN

SpecRank == InitRank /\ [][NextRank]_vars

(***************************************************************************)
(* Properties of read_file (under SpecLoad).                               *)
(***************************************************************************)
\* the lines after the header
DataLines(f) == IF f.lines = <<>> THEN <<>> ELSE Tail(f.lines)

LoadReturned == pc = "returned" /\ movies_data.kind # "unset"

YearAtLeast(line) == line.year.num /\ line.year.val >= year

\* C1: when read_file succeeds for a year floor >= 0, it returns exactly the data
\* lines (header excluded) whose year is >= the floor, each once, in file order.
C1_LoadKeepsYearsFromFloor ==
    (LoadReturned /\ movies_data.kind = "list")
        => /\ year >= 0
           /\ movies_data.val = SelectSeq(DataLines(file), YearAtLeast)

\* C1 witness: a successful load that keeps two lines (one of them of the floor
\* year itself) and drops an earlier one.
C1_Witness ==
    /\ LoadReturned /\ movies_data.kind = "list"
    /\ year = 2
    /\ Len(movies_data.val) = 2
    /\ Len(DataLines(file)) = 3
    /\ \E i \in 1..2 : movies_data.val[i].year.val = year
    /\ DataLines(file)[1].year.val < year

\* a data line whose field count is not 12
BadFieldCount(f) == \E i \in DOMAIN DataLines(f) : DataLines(f)[i].nf # NumFields

\* C2: a data line with a field count other than 12 (fewer than 7 and a blank
\* line included, anywhere in the file) makes read_file return None: no partial
\* list, and no exception escaping.
C2_BadFieldCountReturnsNone ==
    (LoadReturned /\ year >= 0 /\ file.exists /\ BadFieldCount(file))
        => movies_data.kind = "None"

(***************************************************************************)
(* Properties of top_n (under SpecRank).                                   *)
(***************************************************************************)
data == movies_data.val

RankReturned == pc = "returned" /\ top_movies.kind # "unset"

Ranked == RankReturned /\ top_movies.kind = "list"

ActorsOf(movie) == split(movie.actors, <<",", " ">>)

Lists(movie, actor) == actor \in Range(ActorsOf(movie))

MaxOf(S) == CHOOSE x \in S : \A y \in S : y <= x

\* C3: the peak rating of every actor named in the input is the maximum critic
\* rating among all input records listing that actor, whatever the genre filter.
C3_PeakIsMaxOverAllRecords ==
    Ranked =>
        \A i \in DOMAIN data : \A a \in Range(ActorsOf(data[i])) :
            top_movies.actors_max[a] =
                MaxOf({data[j].rating.val : j \in {k \in DOMAIN data : Lists(data[k], a)}})

\* C4: adjacent entries of the result descend by composite score, and entries of
\* equal score ascend by title.
C4_SortedByScoreThenTitle ==
    Ranked =>
        \A j \in 1..(Len(top_movies.val) - 1) :
            LET e == top_movies.val[j]
                f == top_movies.val[j + 1]
            IN  e[2] > f[2] \/ (e[2] = f[2] /\ ~StrLess(f[1], e[1]))

\* C4 witness: two entries of equal score and different titles, returned in the
\* order opposite to the input's.
C4_Witness ==
    /\ Ranked
    /\ Len(top_movies.val) = 2
    /\ top_movies.val[1][2] = top_movies.val[2][2]
    /\ StrLess(top_movies.val[1][1], top_movies.val[2][1])
    /\ top_movies.src = <<2, 1>>

\* the genre filter is empty, or one of its comma-separated tags is, as a
\* whole, one of the record's comma-separated tags
IsTag(s, i, j) ==
    /\ i = 1 \/ s[i - 1] = ","
    /\ j = Len(s) \/ s[j + 1] = ","
    /\ \A k \in i..j : s[k] # ","

TagsOf(s) ==
    {SubSeq(s, p[1], p[2]) :
        p \in {q \in (1..(Len(s) + 1)) \X (0..Len(s)) :
                  q[2] >= q[1] - 1 /\ IsTag(s, q[1], q[2])}}

SharesTag(g, movie) ==
    g = <<>> \/ \E t \in TagsOf(g) : t \in TagsOf(movie.genre)

Matching == {i \in DOMAIN data : SharesTag(genre, data[i])}

\* C5: with n > 0 top_n returns the first min(n, m) entries of the full ordering
\* of the m genre-matching records; with n = 0 it returns all m of them.
C5_FirstNOfFullOrdering ==
    Ranked =>
        LET full == top_n(data, genre, 0).val
            m == Cardinality(Matching)
        IN  /\ Len(full) = m
            /\ n > 0 => /\ Len(top_movies.val) <= n
                        /\ top_movies.val = SubSeq(full, 1, Min2(n, m))
            /\ n = 0 => Len(top_movies.val) = m

\* C5 witness: n = 1 cuts a ranking of two matching records down to its first.
C5_Witness ==
    /\ Ranked
    /\ n = 1
    /\ Cardinality(Matching) = 2
    /\ Len(top_movies.val) = 1

\* C6: a record is in the result iff the filter is empty or shares a whole tag
\* with it; a filter tag that is only part of a record's tag does not match.
C6_ExactTagMatch ==
    Ranked =>
        /\ Range(top_movies.src) \subseteq Matching
        /\ Len(top_movies.src) = Cardinality(Range(top_movies.src))
        /\ n = 0 => Range(top_movies.src) = Matching

\* C6 witness: filter "S" against a record tagged "SF" and one tagged "S,D":
\* only the second is returned.
C6_Witness ==
    /\ Ranked
    /\ n = 0
    /\ genre = <<"S">>
    /\ Len(data) = 2
    /\ data[1].genre = <<"S", "F">>
    /\ data[2].genre = <<"S", ",", "D">>
    /\ top_movies.src = <<2>>

\* C7: a genre-matching record with an empty actor field is left out of the
\* result or fails the call; it is never scored, and no arithmetic fault escapes.
C7_EmptyActorsNotScored ==
    RankReturned =>
        \A i \in DOMAIN data :
            (data[i].nf = NumFields /\ data[i].actors = <<>> /\ SharesTag(genre, data[i]))
                => /\ top_movies.kind = "list" => i \notin Range(top_movies.src)
                   /\ top_movies.exc # "ZeroDivisionError"

\* C8: a record whose critic rating is not a number ends top_n in a controlled
\* outcome (skipped, or None): no exception escapes.
C8_BadRatingControlled ==
    (RankReturned /\ \E i \in DOMAIN data : data[i].nf = NumFields /\ ~data[i].rating.num)
        => top_movies.kind # "raise"

NonNegative == \A i \in DOMAIN data : data[i].rating.num /\ data[i].rating.val >= 0

InBounds(j) ==
    /\ data[top_movies.src[j]].rating.val <= top_movies.val[j][2]
    /\ top_movies.val[j][2] <= MaxOf({data[i].rating.val : i \in DOMAIN data})

Terminated == pc \in {"done", "crashed"}

ReadFailed == movies_data.kind \in {"None", "raise"}

RankFailed == top_movies.kind \in {"None", "raise"}

FailureMessage ==
    \/ "No valid data found for the given input." \in Range(console)
    \/ "No movies found for the given criteria." \in Range(console)

\* C9: the output file is written only after read_file and then top_n have
\* succeeded; if either fails, the run prints a message and ends without
\* calling write_file.
C9_WriteOnlyAfterSuccessElseMessage ==
    /\ out_file # NoOutput => movies_data.kind = "list" /\ top_movies.kind = "list"
    /\ (Terminated /\ (ReadFailed \/ RankFailed)) => FailureMessage /\ out_file = NoOutput

====
